---- MODULE Spec2Model ----
(***************************************************************************)
(* A model of wallet.py: the rate-limited retrying RPC call (call_api),    *)
(* the batched block fetch (get_block_transactions_batch), the search for  *)
(* the first transaction of an address (binary_search_first_transaction),  *)
(* the backward scan (find_transactions_reverse_chronological) and the     *)
(* __main__ block with get_latest_block_number.                            *)
(***************************************************************************)
EXTENDS Integers, Sequences, FiniteSets, TLC

(***************************************************************************)
(* Bounds of the model.  BATCH_SIZE, CALLS and RATE_LIMIT are the program's *)
(* constants of wallet.py:7-9 (1000, 1800 and 60) scaled down so that a    *)
(* range holds several batches and a window fills up.                      *)
(***************************************************************************)
BATCH_SIZE == 2

CALLS == 2

RATE_LIMIT == 3

\* invocations of call_api in a run
MaxCalls == 3

\* seconds a POST, or the caller between two invocations, may take
MaxDelay == 1

MaxBlock == 5

MaxBusy == 2

MaxWanted == 2

None == -1

(***************************************************************************)
(* Text.  A string is a sequence of characters; str.lower() maps each      *)
(* upper-case letter to its lower-case letter and keeps the rest.          *)
(***************************************************************************)
LowerChar(c) ==
    CASE c = "A" -> "a"
      [] c = "B" -> "b"
      [] c = "C" -> "c"
      [] c = "D" -> "d"
      [] c = "E" -> "e"
      [] c = "F" -> "f"
      [] c = "X" -> "x"
      [] OTHER -> c

Lower(s) == [i \in 1..Len(s) |-> LowerChar(s[i])]

\* JSON null / a missing `to` (contract creation); falsy in `tx['to'] and ...`.
NoAddr == <<>>

Truthy(s) == s # NoAddr

(***************************************************************************)
(* The match predicate, once per place the code writes it.                 *)
(***************************************************************************)
\* wallet.py:72
MatchCoarse(tx, address) ==
    \/ Lower(tx.from) = Lower(address)
    \/ (Truthy(tx.to) /\ Lower(tx.to) = Lower(address))

\* the lower() calls left out
MatchFineCaseSensitive(tx, address) ==
    \/ tx.from = address
    \/ (Truthy(tx.to) /\ tx.to = address)

\* wallet.py:91
MatchFine(tx, address) ==
    \/ Lower(tx.from) = Lower(address)
    \/ (Truthy(tx.to) /\ Lower(tx.to) = Lower(address))

\* the comparison of `to` left out: any recipient counts
MatchScanAnyRecipient(tx, address) ==
    \/ Lower(tx.from) = Lower(address)
    \/ Truthy(tx.to)

\* wallet.py:112
MatchScan(tx, address) ==
    \/ Lower(tx.from) = Lower(address)
    \/ (Truthy(tx.to) /\ Lower(tx.to) = Lower(address))

(***************************************************************************)
(* Numbers on the wire: hex(n) and its parse by the node.                  *)
(***************************************************************************)
HexDigits == <<"0","1","2","3","4","5","6","7","8","9","a","b","c","d","e","f">>

RECURSIVE HexBody(_)
HexBody(n) == IF n < 16 THEN <<HexDigits[n + 1]>>
              ELSE Append(HexBody(n \div 16), HexDigits[(n % 16) + 1])

\* wallet.py:49  hex(block_number)
Hex(n) == <<"0", "x">> \o HexBody(n)

DigitValue(c) == (CHOOSE i \in 1..16 : HexDigits[i] = c) - 1

RECURSIVE ParseHexBody(_)
ParseHexBody(s) == IF Len(s) = 0 THEN 0
                   ELSE 16 * ParseHexBody(SubSeq(s, 1, Len(s) - 1)) + DigitValue(s[Len(s)])

\* the node's reading of a block-number parameter
ParseHex(s) == ParseHexBody(SubSeq(s, 3, Len(s)))

(***************************************************************************)
(* Sequences.                                                              *)
(***************************************************************************)
RECURSIVE Flatten(_)
Flatten(ss) == IF Len(ss) = 0 THEN <<>> ELSE Head(ss) \o Flatten(Tail(ss))

\* Python's s[:n]
Take(s, n) == SubSeq(s, 1, IF n < Len(s) THEN (IF n < 0 THEN 0 ELSE n) ELSE Len(s))

SeqSet(s) == {s[i] : i \in 1..Len(s)}

Min(a, b) == IF a < b THEN a ELSE b

Max(a, b) == IF a > b THEN a ELSE b

\* range(a, b) as a list: a, a+1, ..., b-1
Range(a, b) == [i \in 1..(IF b > a THEN b - a ELSE 0) |-> a + i - 1]

Perms(n) == {p \in [1..n -> 1..n] : \A i, j \in 1..n : p[i] = p[j] => i = j}

Identity(n) == [i \in 1..n |-> i]

(***************************************************************************)
(* The chain held by the node.  chain[b] is the number of transactions of  *)
(* block b that involve the tracked address; a block also holds a transfer *)
(* between other addresses or a contract creation by somebody else.        *)
(* Blocks above MaxBlock are not mined: the node answers them with a null  *)
(* result.                                                                 *)
(***************************************************************************)
Tracked == <<"0", "x", "a", "B">>

SenderForm == <<"0", "x", "A", "b">>

ReceiverForm == <<"0", "x", "a", "b">>

Stranger == <<"0", "x", "c", "d">>

Bystander == <<"0", "x", "E", "f">>

PerBlock == {0, 1, 2}

Chains == {c \in [0..MaxBlock -> PerBlock] :
              Cardinality({b \in 0..MaxBlock : c[b] > 0}) <= MaxBusy}

Tx(b, i, from, to) == [hash |-> <<b, i>>, from |-> from, to |-> to, blockNumber |-> b]

BlockTxs(c, b) ==
    [i \in 1..(c[b] + 1) |->
        IF i = 2 THEN Tx(b, i, Stranger, NoAddr)
        ELSE IF i = 1 /\ c[b] = 0 THEN Tx(b, i, Stranger, Bystander)
        ELSE IF i = 1 THEN Tx(b, i, Stranger, ReceiverForm)
        ELSE Tx(b, i, SenderForm, Stranger)]

(***************************************************************************)
(* get_block_transactions_batch: the batched request, the node's answer    *)
(* and the extraction of the transactions.                                 *)
(***************************************************************************)
\* wallet.py:44-52; ids are enumerate()'s, from 0
Payloads(block_numbers) ==
    [i \in 1..Len(block_numbers) |->
        [jsonrpc |-> "2.0", id |-> i - 1, method |-> "eth_getBlockByNumber",
         params |-> <<Hex(block_numbers[i]), TRUE>>]]

\* One sub-response: kind "block" carries a result with a transaction list,
\* "null" a null result, "error" no result field at all.
SubResponse(id, kind, txs) == [id |-> id, kind |-> kind, txs |-> txs]

\* The node's answer to one sub-request, from the chain c.
Answer(c, p) ==
    LET b == ParseHex(p.params[1])
    IN  IF b \in DOMAIN c THEN SubResponse(p.id, "block", BlockTxs(c, b))
        ELSE SubResponse(p.id, "null", <<>>)

\* The node's answer to a batch: one sub-response per sub-request, in the
\* order perm (JSON-RPC does not fix the order of a batch response); the
\* sub-requests whose id is in errs are answered with an error object.
NodeResponseWith(c, payloads, perm, errs) ==
    [i \in 1..Len(payloads) |->
        IF payloads[perm[i]].id \in errs
        THEN SubResponse(payloads[perm[i]].id, "error", <<>>)
        ELSE Answer(c, payloads[perm[i]])]

NodeResponse(c, payloads, perm) == NodeResponseWith(c, payloads, perm, {})

\* the loop left at the first sub-response without a block
ExtractUntilMissing(response) ==
    Flatten([i \in 1..Len(response) |->
        IF \A j \in 1..i : response[j].kind = "block" THEN response[i].txs ELSE <<>>])

\* wallet.py:54-58
ExtractTransactions(response) ==
    Flatten([i \in 1..Len(response) |->
        IF response[i].kind = "block" THEN response[i].txs ELSE <<>>])

\* What one get_block_transactions_batch(block_numbers) can give its caller:
\* call_api raises (wallet.py:28), or returns the node's answer in some order.
Failure == [ok |-> FALSE, txs |-> <<>>]

\* wallet.py:53: call_api(payloads) may raise
FetchFailures == {Failure}

\* wallet.py:43-58
GetBlockTransactionsBatch(c, block_numbers, perm) ==
    ExtractTransactions(NodeResponse(c, Payloads(block_numbers), perm))

FetchResults(c, block_numbers) ==
    {[ok |-> TRUE, txs |-> GetBlockTransactionsBatch(c, block_numbers, perm)] :
        perm \in Perms(Len(block_numbers))}

FetchOutcomes(c, block_numbers) == FetchFailures \cup FetchResults(c, block_numbers)

(***************************************************************************)
(* State.                                                                  *)
(***************************************************************************)
VARIABLES
    chain,              \* the node's blocks
    func,               \* the function under way: "locate" or "scan"
    lowBlock,           \* its arguments as passed
    highBlock,
    maxTransactions,
    pc,                 \* where the function stands
    start_block,        \* wallet.py:60/100 parameters, reassigned by the loops
    end_block,
    mid_block,          \* wallet.py:63
    batch_start,        \* wallet.py:67 / 106
    found_transaction,  \* wallet.py:66
    block,              \* wallet.py:86 loop variable
    result,             \* the return value of binary_search_first_transaction
    transactions,       \* wallet.py:102
    pbar,               \* blocks reported to the progress bar
    lastFetch,          \* the latest get_block_transactions_batch call and how it ended
    meter,              \* the get_block_transactions_batch calls so far, when they are counted
    scanLog,            \* the batches find_transactions_reverse_chronological asked for
    bpc,                \* where a lone get_block_transactions_batch call stands
    block_numbers,      \* its argument
    sent,               \* the payloads it handed to call_api, one entry per call
    response,           \* wallet.py:53
    batchResult,        \* wallet.py:54, the list it returns
    mtx,                \* a transaction put to the match expressions
    maddr,              \* the address it is matched against
    mdone,              \* the places whose expression has been evaluated
    mres,               \* what each gave
    clock,              \* seconds on the clock (time.monotonic, time.sleep)
    last_reset,         \* the limiter's window start
    num_calls,          \* the limiter's count of calls in the window
    apc,                \* where call_api stands
    attempt,            \* wallet.py:20 loop variable
    outcomes,           \* the POSTs of the invocation under way, "ok" or "fail" each
    apiResult,          \* what the invocation gave its caller
    sleepFor,           \* the seconds a pending time.sleep lasts
    naps,               \* the back-off sleeps of the invocation under way
    admits,             \* the invocations the limiter let through: time and window
    invoked,            \* the invocations made so far
    printed,            \* wallet.py:26, the attempt numbers call_api has printed
    posted,             \* the POSTs sent in the limiter's current window
    mainpc,             \* where the __main__ block stands
    latest_response,    \* wallet.py:38, the answer to eth_blockNumber
    latest_block,       \* wallet.py:149
    creation_block,     \* wallet.py:152
    started,            \* the stages __main__ has called so far
    log                 \* the lines __main__ has printed

searchVars == <<chain, func, lowBlock, highBlock, maxTransactions, pc, start_block,
                end_block, mid_block, batch_start, found_transaction, block, result,
                transactions, pbar, lastFetch, meter,
                   scanLog>>

batchVars == <<bpc, block_numbers, sent, response, batchResult>>

matchVars == <<mtx, maddr, mdone, mres>>

apiVars == <<clock, last_reset, num_calls, apc, attempt, outcomes, apiResult, sleepFor,
             naps, admits, invoked, printed, posted>>

mainVars == <<mainpc, latest_response, latest_block, creation_block, started, log>>

vars == <<searchVars, batchVars, matchVars, apiVars, mainVars>>

\* the calls are not counted
NoMeter == [on |-> FALSE, coarse |-> 0, fine |-> 0, scan |-> 0]

\* one more call in the given phase
Metered(m, phase) == IF m.on THEN [m EXCEPT ![phase] = @ + 1] ELSE m

NoFetch == [blocks |-> <<>>, ok |-> TRUE, phase |-> "none"]

Fetched(blocks, o, phase) == [blocks |-> blocks, ok |-> o.ok, phase |-> phase]

\* wallet.py:72  any(... for tx in batch_txs)
AnyMatchCoarse(txs) == \E i \in 1..Len(txs) : MatchCoarse(txs[i], Tracked)

\* wallet.py:90-91  for tx in batch_txs: if ...
AnyMatchFine(txs) == \E i \in 1..Len(txs) : MatchFine(txs[i], Tracked)

(***************************************************************************)
(* binary_search_first_transaction(address, start_block, end_block)        *)
(***************************************************************************)
\* wallet.py:62-66: the while test holds; a new iteration starts
CoarseEnter ==
    /\ pc = "coarse"
    /\ start_block <= end_block
    /\ mid_block' = (start_block + end_block) \div 2
    /\ found_transaction' = FALSE
    /\ batch_start' = start_block
    /\ pc' = "batch"
    /\ UNCHANGED <<batchVars, matchVars, apiVars, mainVars>>
    /\ UNCHANGED <<chain, func, lowBlock, highBlock, maxTransactions, start_block,
                   end_block, block, result, transactions, pbar, lastFetch, meter,
                   scanLog>>

\* wallet.py:68
BatchEnd(bs, mid) == Min(bs + BATCH_SIZE, mid + 1)

\* wallet.py:67-69: the batch the for loop stands at
CoarseBlocks == Range(batch_start, BatchEnd(batch_start, mid_block))

\* wallet.py:67: the for loop moves to the next batch of [start, mid], or ends
CoarseAdvance ==
    /\ batch_start' = batch_start + BATCH_SIZE
    /\ pc' = IF batch_start + BATCH_SIZE < mid_block + 1 THEN "batch" ELSE "update"

\* no handler around the fetch: the error leaves the function
CoarseBatchErrorPropagates ==
    /\ pc = "batch"
    /\ Failure \in FetchFailures
    /\ lastFetch' = Fetched(CoarseBlocks, Failure, "coarse")
    /\ meter' = Metered(meter, "coarse")
    /\ pc' = "raised"
    /\ UNCHANGED <<batchVars, matchVars, apiVars, mainVars>>
    /\ UNCHANGED <<chain, func, lowBlock, highBlock, maxTransactions, start_block,
                   end_block, mid_block, batch_start, found_transaction, block, result,
                   transactions, pbar, scanLog>>

\* wallet.py:77-78: the fetch of the batch raised; the handler logs and the
\* for loop goes on
CoarseBatchError ==
    /\ pc = "batch"
    /\ Failure \in FetchFailures
    /\ lastFetch' = Fetched(CoarseBlocks, Failure, "coarse")
    /\ meter' = Metered(meter, "coarse")
    /\ CoarseAdvance
    /\ UNCHANGED <<found_transaction, end_block>>
    /\ UNCHANGED <<batchVars, matchVars, apiVars, mainVars>>
    /\ UNCHANGED <<chain, func, lowBlock, highBlock, maxTransactions, start_block,
                   mid_block, block, result, transactions, pbar, scanLog>>

\* wallet.py:70-76: the fetch of the batch returned
CoarseBatch ==
    /\ pc = "batch"
    /\ \E o \in FetchResults(chain, CoarseBlocks) :
         /\ lastFetch' = Fetched(CoarseBlocks, o, "coarse")
         /\ meter' = Metered(meter, "coarse")
         /\ IF AnyMatchCoarse(o.txs)
            THEN /\ found_transaction' = TRUE
                 /\ end_block' = BatchEnd(batch_start, mid_block)
                 /\ pc' = "update"
                 /\ UNCHANGED batch_start
            ELSE /\ CoarseAdvance
                 /\ UNCHANGED <<found_transaction, end_block>>
    /\ UNCHANGED <<batchVars, matchVars, apiVars, mainVars>>
    /\ UNCHANGED <<chain, func, lowBlock, highBlock, maxTransactions, start_block,
                   mid_block, block, result, transactions, pbar, scanLog>>

\* wallet.py:80-83
CoarseUpdate ==
    /\ pc = "update"
    /\ start_block' = IF found_transaction THEN start_block ELSE mid_block + 1
    /\ pc' = "coarse"
    /\ UNCHANGED <<batchVars, matchVars, apiVars, mainVars>>
    /\ UNCHANGED <<chain, func, lowBlock, highBlock, maxTransactions, end_block,
                   mid_block, batch_start, found_transaction, block, result,
                   transactions, pbar, lastFetch, meter,
                   scanLog>>

\* wallet.py:62, 86: the while test fails; the fine-grained loop starts
CoarseExit ==
    /\ pc = "coarse"
    /\ ~(start_block <= end_block)
    /\ block' = start_block
    /\ pc' = "fine"
    /\ UNCHANGED <<batchVars, matchVars, apiVars, mainVars>>
    /\ UNCHANGED <<chain, func, lowBlock, highBlock, maxTransactions, start_block,
                   end_block, mid_block, batch_start, found_transaction, result,
                   transactions, pbar, lastFetch, meter,
                   scanLog>>

\* the for loop taken over start_block .. end_block + 1, its upper end included
FineStepInclusive ==
    /\ pc = "fine"
    /\ IF block <= end_block + 1
       THEN \E o \in FetchOutcomes(chain, <<block>>) :
              /\ lastFetch' = Fetched(<<block>>, o, "fine")
              /\ meter' = Metered(meter, "fine")
              /\ IF o.ok /\ AnyMatchFine(o.txs)
                 THEN /\ result' = block
                      /\ pc' = "done"
                      /\ UNCHANGED block
                 ELSE /\ block' = block + 1
                      /\ UNCHANGED <<result, pc>>
       ELSE /\ result' = None
            /\ pc' = "done"
            /\ UNCHANGED <<block, lastFetch, meter>>
    /\ UNCHANGED <<batchVars, matchVars, apiVars, mainVars>>
    /\ UNCHANGED <<chain, func, lowBlock, highBlock, maxTransactions, start_block,
                   end_block, mid_block, batch_start, found_transaction,
                   transactions, pbar, scanLog>>

\* wallet.py:86-98: one pass of the for loop over range(start_block, end_block + 1),
\* or the return after it
FineStep ==
    /\ pc = "fine"
    /\ IF block < end_block + 1
       THEN \E o \in FetchOutcomes(chain, <<block>>) :
              /\ lastFetch' = Fetched(<<block>>, o, "fine")
              /\ meter' = Metered(meter, "fine")
              /\ IF o.ok /\ AnyMatchFine(o.txs)
                 THEN /\ result' = block
                      /\ pc' = "done"
                      /\ UNCHANGED block
                 ELSE /\ block' = block + 1
                      /\ UNCHANGED <<result, pc>>
       ELSE /\ result' = None
            /\ pc' = "done"
            /\ UNCHANGED <<block, lastFetch, meter>>
    /\ UNCHANGED <<batchVars, matchVars, apiVars, mainVars>>
    /\ UNCHANGED <<chain, func, lowBlock, highBlock, maxTransactions, start_block,
                   end_block, mid_block, batch_start, found_transaction,
                   transactions, pbar, scanLog>>

(***************************************************************************)
(* find_transactions_reverse_chronological(address, start_block, end_block, *)
(* max_transactions)                                                       *)
(***************************************************************************)
Relevant(txs) == SelectSeq(txs, LAMBDA tx : MatchScan(tx, Tracked))

\* the slice left out
ExtendAll(collected, relevant, wanted) == collected \o relevant

\* the new matches put in front of the list
ExtendInFront(collected, relevant, wanted) ==
    Take(relevant, wanted - Len(collected)) \o collected

\* wallet.py:113
Extend(collected, relevant, wanted) ==
    collected \o Take(relevant, wanted - Len(collected))

\* one block more than BATCH_SIZE in a batch
ScanBatchStartOffByOne(e, s) == Max(e - BATCH_SIZE, s)

\* wallet.py:106
ScanBatchStart(e, s) == Max(e - BATCH_SIZE + 1, s)

\* wallet.py:105: the while test
ScanGoesOn == end_block >= start_block /\ Len(transactions) < maxTransactions

\* wallet.py:107
ScanBlocks == Range(ScanBatchStart(end_block, start_block), end_block + 1)

\* wallet.py:106, 122-123: the part of a pass that the try statement does not hold
ScanAdvance ==
    LET bs == ScanBatchStart(end_block, start_block)
    IN  /\ batch_start' = bs
        /\ pbar' = pbar + (end_block - bs + 1)
        /\ end_block' = bs - 1

\* no handler around the fetch: the error leaves the function
ScanBatchErrorPropagates ==
    /\ pc = "scan"
    /\ ScanGoesOn
    /\ Failure \in FetchFailures
    /\ lastFetch' = Fetched(ScanBlocks, Failure, "scan")
    /\ meter' = Metered(meter, "scan")
    /\ scanLog' = Append(scanLog, [first |-> ScanBatchStart(end_block, start_block),
                                   last |-> end_block, ok |-> FALSE])
    /\ pc' = "raised"
    /\ UNCHANGED <<batchVars, matchVars, apiVars, mainVars>>
    /\ UNCHANGED <<chain, func, lowBlock, highBlock, maxTransactions, start_block,
                   end_block, mid_block, batch_start, found_transaction, block, result,
                   transactions, pbar>>

\* wallet.py:118-120: one pass of the while loop whose fetch raised
ScanBatchError ==
    /\ pc = "scan"
    /\ ScanGoesOn
    /\ Failure \in FetchFailures
    /\ lastFetch' = Fetched(ScanBlocks, Failure, "scan")
    /\ meter' = Metered(meter, "scan")
    /\ scanLog' = Append(scanLog, [first |-> ScanBatchStart(end_block, start_block),
                                   last |-> end_block, ok |-> FALSE])
    /\ UNCHANGED transactions
    /\ ScanAdvance
    /\ UNCHANGED <<batchVars, matchVars, apiVars, mainVars>>
    /\ UNCHANGED <<chain, func, lowBlock, highBlock, maxTransactions, pc, start_block,
                   mid_block, found_transaction, block, result>>

\* wallet.py:105-117, 122-123: one pass of the while loop whose fetch returned
ScanBatch ==
    /\ pc = "scan"
    /\ ScanGoesOn
    /\ \E o \in FetchResults(chain, ScanBlocks) :
         /\ lastFetch' = Fetched(ScanBlocks, o, "scan")
         /\ meter' = Metered(meter, "scan")
         /\ scanLog' = Append(scanLog, [first |-> ScanBatchStart(end_block, start_block),
                                        last |-> end_block, ok |-> TRUE])
         /\ transactions' = Extend(transactions, Relevant(o.txs), maxTransactions)
    /\ ScanAdvance
    /\ UNCHANGED <<batchVars, matchVars, apiVars, mainVars>>
    /\ UNCHANGED <<chain, func, lowBlock, highBlock, maxTransactions, pc, start_block,
                   mid_block, found_transaction, block, result>>

\* wallet.py:105, 125: the while test fails; return transactions
ScanReturn ==
    /\ pc = "scan"
    /\ ~ScanGoesOn
    /\ pc' = "done"
    /\ UNCHANGED <<batchVars, matchVars, apiVars, mainVars>>
    /\ UNCHANGED <<chain, func, lowBlock, highBlock, maxTransactions, start_block,
                   end_block, mid_block, batch_start, found_transaction, block, result,
                   transactions, pbar, lastFetch, meter,
                   scanLog>>

(***************************************************************************)
(* The two functions, each called on every chain and range of the bounds.  *)
(***************************************************************************)
SearchInit ==
    /\ chain \in Chains
    /\ func \in {"locate", "scan"}
    /\ lowBlock \in 0..MaxBlock
    /\ highBlock \in lowBlock..MaxBlock
    /\ maxTransactions \in IF func = "scan" THEN 1..MaxWanted ELSE {0}
    /\ pc = IF func = "locate" THEN "coarse" ELSE "scan"
    /\ start_block = lowBlock
    /\ end_block = highBlock
    /\ mid_block = None
    /\ batch_start = None
    /\ found_transaction = FALSE
    /\ block = None
    /\ result = None
    /\ transactions = <<>>
    /\ pbar = 0
    /\ lastFetch = NoFetch
    /\ meter = NoMeter
    /\ scanLog = <<>>

\* neither function is called
SearchIdle ==
    /\ func = "none"
    /\ lowBlock = 0
    /\ highBlock = 0
    /\ maxTransactions = 0
    /\ pc = "idle"
    /\ start_block = 0
    /\ end_block = 0
    /\ mid_block = None
    /\ batch_start = None
    /\ found_transaction = FALSE
    /\ block = None
    /\ result = None
    /\ transactions = <<>>
    /\ pbar = 0
    /\ lastFetch = NoFetch
    /\ meter = NoMeter
    /\ scanLog = <<>>

\* no lone get_block_transactions_batch call
BatchIdle ==
    /\ bpc = "idle"
    /\ block_numbers = <<>>
    /\ sent = <<>>
    /\ response = <<>>
    /\ batchResult = <<>>

\* no match expression put to the test
MatchIdle ==
    /\ mtx = [from |-> NoAddr, to |-> NoAddr]
    /\ maddr = NoAddr
    /\ mdone = {}
    /\ mres = [p \in {"coarse", "fine", "scan"} |-> FALSE]

NoResult == [kind |-> "none", of |-> 0]

\* call_api is not called
ApiIdle ==
    /\ clock = 0
    /\ last_reset = 0
    /\ num_calls = 0
    /\ apc = "idle"
    /\ attempt = 0
    /\ outcomes = <<>>
    /\ apiResult = NoResult
    /\ sleepFor = 0
    /\ naps = <<>>
    /\ admits = <<>>
    /\ invoked = 0
    /\ printed = <<>>
    /\ posted = 0

\* call_api has given get_latest_block_number nothing yet
NoResponse == [has |-> FALSE, result |-> <<"-">>]

\* the __main__ block is not run
MainIdle ==
    /\ mainpc = "idle"
    /\ latest_response = NoResponse
    /\ latest_block = None
    /\ creation_block = None
    /\ started = {}
    /\ log = <<>>

Init == SearchInit /\ BatchIdle /\ MatchIdle /\ ApiIdle /\ MainIdle

Next ==
    \/ CoarseEnter
    \/ CoarseBatchError
    \/ CoarseBatch
    \/ CoarseUpdate
    \/ CoarseExit
    \/ FineStep
    \/ ScanBatchError
    \/ ScanBatch
    \/ ScanReturn

Spec == Init /\ [][Next]_vars

\* One flow runs the program: a step that can be taken is taken.
FairSpec == Init /\ [][Next]_vars /\ WF_vars(Next)

(***************************************************************************)
(* binary_search_first_transaction called on ranges of up to MaxSpan + 1   *)
(* blocks of a chain that holds no transaction of the address, with its    *)
(* get_block_transactions_batch calls counted.                             *)
(***************************************************************************)
MaxSpan == 40

CostInit ==
    /\ chain = [b \in 0..MaxSpan |-> 0]
    /\ func = "locate"
    /\ lowBlock \in 0..MaxSpan
    /\ highBlock \in lowBlock..MaxSpan
    /\ maxTransactions = 0
    /\ pc = "coarse"
    /\ start_block = lowBlock
    /\ end_block = highBlock
    /\ mid_block = None
    /\ batch_start = None
    /\ found_transaction = FALSE
    /\ block = None
    /\ result = None
    /\ transactions = <<>>
    /\ pbar = 0
    /\ lastFetch = NoFetch
    /\ meter = [NoMeter EXCEPT !.on = TRUE]
    /\ scanLog = <<>>
    /\ BatchIdle
    /\ MatchIdle
    /\ ApiIdle
    /\ MainIdle

CostNext ==
    \/ CoarseEnter
    \/ CoarseBatchError
    \/ CoarseBatch
    \/ CoarseUpdate
    \/ CoarseExit
    \/ FineStep

CostSpec == CostInit /\ [][CostNext]_vars

(***************************************************************************)
(* get_block_transactions_batch(block_numbers), called on its own: on      *)
(* every chain, on every run of up to MaxBatch consecutive block numbers    *)
(* (blocks above MaxBlock are not mined), with the node free to order the  *)
(* sub-responses and to answer any sub-request with an error object.       *)
(***************************************************************************)
MaxBatch == 2

BatchInputs == {Range(a, a + n) : a \in 0..MaxBlock, n \in 0..MaxBatch}

BatchChains == {c \in Chains : Cardinality({b \in 0..MaxBlock : c[b] > 0}) <= 1}

\* wallet.py:44-53: the payloads are built and handed to call_api, which returns
BatchSend ==
    /\ bpc = "call"
    /\ sent' = Append(sent, Payloads(block_numbers))
    /\ \E perm \in Perms(Len(block_numbers)) :
         \E errs \in SUBSET {i - 1 : i \in 1..Len(block_numbers)} :
           response' = NodeResponseWith(chain, Payloads(block_numbers), perm, errs)
    /\ bpc' = "extract"
    /\ UNCHANGED <<block_numbers, batchResult>>
    /\ UNCHANGED <<searchVars, matchVars, apiVars, mainVars>>

\* wallet.py:53: call_api raises; nothing here catches it
BatchRaise ==
    /\ bpc = "call"
    /\ Failure \in FetchFailures
    /\ sent' = Append(sent, Payloads(block_numbers))
    /\ bpc' = "raised"
    /\ UNCHANGED <<block_numbers, response, batchResult>>
    /\ UNCHANGED <<searchVars, matchVars, apiVars, mainVars>>

\* wallet.py:54-58
BatchExtract ==
    /\ bpc = "extract"
    /\ batchResult' = ExtractTransactions(response)
    /\ bpc' = "done"
    /\ UNCHANGED <<block_numbers, sent, response>>
    /\ UNCHANGED <<searchVars, matchVars, apiVars, mainVars>>

BatchInit ==
    /\ chain \in BatchChains
    /\ SearchIdle
    /\ bpc = "call"
    /\ block_numbers \in BatchInputs
    /\ sent = <<>>
    /\ response = <<>>
    /\ batchResult = <<>>
    /\ MatchIdle
    /\ ApiIdle
    /\ MainIdle

BatchNext ==
    \/ BatchRaise
    \/ BatchSend
    \/ BatchExtract

BatchSpec == BatchInit /\ [][BatchNext]_vars

(***************************************************************************)
(* Properties of get_block_transactions_batch.                             *)
(***************************************************************************)
\* the sub-response that answers the sub-request of position i
AnswerTo(i) == CHOOSE r \in SeqSet(response) : r.id = i - 1

\* what the block of position i gives: its transactions when the node answered
\* with the block, nothing when the result is null or missing
Contribution(i) ==
    IF AnswerTo(i).kind = "block" /\ block_numbers[i] \in DOMAIN chain
    THEN BlockTxs(chain, block_numbers[i]) ELSE <<>>

InRequestOrder == \A i \in 1..Len(response) : response[i].id = i - 1

\* C8: get_block_transactions_batch makes one batched call with one
\* eth_getBlockByNumber sub-request per block number, id = position; a
\* sub-response with a null or missing result gives nothing and raises nothing,
\* every other one gives all the transactions of its block: the output holds
\* exactly the transactions of the blocks that exist, and is their concatenation
\* when the sub-responses come in request order.
C8_BatchFetch ==
    /\ bpc \in {"extract", "done", "raised"}
       => /\ Len(sent) = 1
          /\ Len(sent[1]) = Len(block_numbers)
          /\ \A i \in 1..Len(block_numbers) :
                /\ sent[1][i].id = i - 1
                /\ sent[1][i].method = "eth_getBlockByNumber"
                /\ ParseHex(sent[1][i].params[1]) = block_numbers[i]
                /\ sent[1][i].params[2] = TRUE
    /\ bpc = "done"
       => /\ Len(batchResult) = Len(Flatten([i \in 1..Len(block_numbers) |-> Contribution(i)]))
          /\ SeqSet(batchResult) = SeqSet(Flatten([i \in 1..Len(block_numbers) |-> Contribution(i)]))
          /\ InRequestOrder
             => batchResult = Flatten([i \in 1..Len(block_numbers) |-> Contribution(i)])

C8_Witness ==
    /\ bpc = "done" /\ Len(block_numbers) >= 2
    /\ \E i, j \in 1..Len(response) :
         /\ response[i].kind = "block" /\ response[j].kind # "block" /\ j < i
    /\ Len(batchResult) > 0

\* C9: get_block_transactions_batch returns the transactions grouped in the
\* order of the submitted block numbers whatever the order of the sub-responses.
C9_OrderOfSubmission ==
    bpc = "done" => batchResult = Flatten([i \in 1..Len(block_numbers) |-> Contribution(i)])

(***************************************************************************)
(* The three match expressions, each evaluated on every transaction and    *)
(* address over a small alphabet; `to` may be absent and the address empty. *)
(***************************************************************************)
Letters == {"a", "A", "b"}

Addresses == {<<"0", "x", c, d>> : c, d \in Letters}

\* wallet.py:72
EvalCoarse ==
    /\ "coarse" \notin mdone
    /\ mres' = [mres EXCEPT !["coarse"] = MatchCoarse(mtx, maddr)]
    /\ mdone' = mdone \cup {"coarse"}
    /\ UNCHANGED <<mtx, maddr, searchVars, batchVars, apiVars, mainVars>>

\* wallet.py:91
EvalFine ==
    /\ "fine" \notin mdone
    /\ mres' = [mres EXCEPT !["fine"] = MatchFine(mtx, maddr)]
    /\ mdone' = mdone \cup {"fine"}
    /\ UNCHANGED <<mtx, maddr, searchVars, batchVars, apiVars, mainVars>>

\* wallet.py:112
EvalScan ==
    /\ "scan" \notin mdone
    /\ mres' = [mres EXCEPT !["scan"] = MatchScan(mtx, maddr)]
    /\ mdone' = mdone \cup {"scan"}
    /\ UNCHANGED <<mtx, maddr, searchVars, batchVars, apiVars, mainVars>>

MatchInit ==
    /\ chain \in {[b \in 0..MaxBlock |-> 0]}
    /\ SearchIdle
    /\ BatchIdle
    /\ mtx \in [from : Addresses, to : Addresses \cup {NoAddr}]
    /\ maddr \in Addresses \cup {NoAddr}
    /\ mdone = {}
    /\ mres = [p \in {"coarse", "fine", "scan"} |-> FALSE]
    /\ ApiIdle
    /\ MainIdle

MatchNext ==
    \/ EvalCoarse
    \/ EvalFine
    \/ EvalScan

MatchSpec == MatchInit /\ [][MatchNext]_vars

(***************************************************************************)
(* Properties of the match expressions.                                    *)
(***************************************************************************)
SameLetter(c, d) == c = d \/ {c, d} \in {{"a", "A"}, {"b", "B"}, {"x", "X"}}

EqualIgnoringCase(s, t) ==
    Len(s) = Len(t) /\ \A i \in 1..Len(s) : SameLetter(s[i], t[i])

Involves(tx, address) ==
    \/ EqualIgnoringCase(tx.from, address)
    \/ (tx.to # NoAddr /\ EqualIgnoringCase(tx.to, address))

\* C6: the coarse phase, the fine phase and the scan decide a match alike: a
\* transaction matches an address iff its `from`, or its `to` when present,
\* equals the address up to letter case; addresses that differ only in case
\* give the same answer; without `to` only `from` can match.
C6_OneMatchPredicate ==
    /\ \A p \in mdone : mres[p] = Involves(mtx, maddr)
    /\ \A p, q \in mdone : mres[p] = mres[q]
    /\ \A p \in mdone : \A other \in Addresses :
          EqualIgnoringCase(other, maddr)
          => /\ MatchCoarse(mtx, other) = mres[p]
             /\ MatchFine(mtx, other) = mres[p]
             /\ MatchScan(mtx, other) = mres[p]
    /\ \A p \in mdone : mtx.to = NoAddr => mres[p] = EqualIgnoringCase(mtx.from, maddr)

C6_Witness ==
    /\ mdone = {"coarse", "fine", "scan"}
    /\ mtx.to # NoAddr /\ mtx.to # maddr /\ mtx.from # mtx.to
    /\ EqualIgnoringCase(mtx.to, maddr) /\ ~EqualIgnoringCase(mtx.from, maddr)
    /\ mres["coarse"] /\ mres["fine"] /\ mres["scan"]

(***************************************************************************)
(* call_api(payload) under @sleep_and_retry @limits(calls=CALLS,           *)
(* period=RATE_LIMIT) (wallet.py:17-29), invoked MaxCalls times in a row by *)
(* one caller.  The decorators are those of the ratelimit package: limits  *)
(* counts the calls since last_reset, starts a new window at the first     *)
(* call that comes RATE_LIMIT seconds or more after last_reset, and raises *)
(* RateLimitException(period_remaining) past CALLS calls; sleep_and_retry  *)
(* sleeps period_remaining seconds on that exception and calls again.      *)
(***************************************************************************)
\* wallet.py:18  limits: the seconds left of the window
PeriodRemaining == RATE_LIMIT - (clock - last_reset)

\* wallet.py:18  limits: the count after this call, the window reset if it is over
Counted == (IF PeriodRemaining <= 0 THEN 0 ELSE num_calls) + 1

\* wallet.py:18  limits: the window this call falls in
Window == IF PeriodRemaining <= 0 THEN clock ELSE last_reset

\* the limiter left out
AdmittedAlways == TRUE

\* wallet.py:18  limits: the call goes through
Admitted == Counted <= CALLS

\* the last value of range(3) taken for 3
IsLastAttemptOffByOne(a) == a = 3

\* wallet.py:27
IsLastAttempt(a) == a = 2

\* wallet.py:20  range(3)
Attempts == {0, 1, 2}

\* the same wait after every failure
BackoffConstant(a) == 1

\* wallet.py:29
Backoff(a) == 2 ^ a

\* wallet.py:22: one more POST leaves, counted when the limiter's window is
\* still open
Posted == IF clock < last_reset + RATE_LIMIT THEN posted + 1 ELSE posted

\* the caller invokes call_api, some time after the previous invocation ended
ApiCall ==
    /\ apc \in {"idle", "returned", "raised"}
    /\ invoked < MaxCalls
    /\ invoked' = invoked + 1
    /\ \E d \in 0..MaxDelay : clock' = clock + d
    /\ apc' = "limit"
    /\ attempt' = 0
    /\ outcomes' = <<>>
    /\ naps' = <<>>
    /\ apiResult' = NoResult
    /\ printed' = <<>>
    /\ UNCHANGED <<last_reset, num_calls, sleepFor, admits, posted>>
    /\ UNCHANGED <<searchVars, batchVars, matchVars, mainVars>>

\* wallet.py:17-20: the limiter lets the call through; the body starts
LimitAdmit ==
    /\ apc = "limit"
    /\ Admitted
    /\ num_calls' = Counted
    /\ last_reset' = Window
    /\ posted' = IF Window = last_reset THEN posted ELSE 0
    /\ admits' = Append(admits, [t |-> clock, window |-> Window, waited |-> sleepFor])
    /\ sleepFor' = 0
    /\ attempt' = 0
    /\ apc' = "attempt"
    /\ UNCHANGED <<clock, outcomes, apiResult, naps, invoked, printed>>
    /\ UNCHANGED <<searchVars, batchVars, matchVars, mainVars>>

\* wallet.py:17-18: the limiter raises RateLimitException; sleep_and_retry
\* catches it and goes to sleep for the rest of the window
LimitReject ==
    /\ apc = "limit"
    /\ ~Admitted
    /\ num_calls' = Counted
    /\ last_reset' = Window
    /\ posted' = IF Window = last_reset THEN posted ELSE 0
    /\ sleepFor' = PeriodRemaining
    /\ apc' = "sleeping"
    /\ UNCHANGED <<clock, attempt, outcomes, apiResult, naps, admits, invoked, printed>>
    /\ UNCHANGED <<searchVars, batchVars, matchVars, mainVars>>

\* wallet.py:17: sleep_and_retry wakes up and calls the limited function again
LimitWake ==
    /\ apc = "sleeping"
    /\ clock' = clock + sleepFor
    /\ apc' = "limit"
    /\ UNCHANGED <<last_reset, num_calls, attempt, outcomes, apiResult, sleepFor, naps,
                   admits, invoked, printed, posted>>
    /\ UNCHANGED <<searchVars, batchVars, matchVars, mainVars>>

\* wallet.py:22-24: the POST succeeds; its JSON is returned
AttemptOk ==
    /\ apc = "attempt"
    /\ attempt \in Attempts
    /\ \E d \in 0..MaxDelay : clock' = clock + d
    /\ outcomes' = Append(outcomes, "ok")
    /\ posted' = Posted
    /\ apiResult' = [kind |-> "response", of |-> Len(outcomes) + 1]
    /\ apc' = "returned"
    /\ UNCHANGED <<last_reset, num_calls, attempt, sleepFor, naps, admits, invoked,
                   printed>>
    /\ UNCHANGED <<searchVars, batchVars, matchVars, mainVars>>

\* wallet.py:22-29: the POST fails; the handler logs, then raises or backs off
AttemptFail ==
    /\ apc = "attempt"
    /\ attempt \in Attempts
    /\ \E d \in 0..MaxDelay : clock' = clock + d
    /\ outcomes' = Append(outcomes, "fail")
    /\ posted' = Posted
    /\ printed' = Append(printed, attempt + 1)
    /\ IF IsLastAttempt(attempt)
       THEN /\ apiResult' = [kind |-> "error", of |-> Len(outcomes) + 1]
            /\ apc' = "raised"
            /\ UNCHANGED sleepFor
       ELSE /\ sleepFor' = Backoff(attempt)
            /\ apc' = "backoff"
            /\ UNCHANGED apiResult
    /\ UNCHANGED <<last_reset, num_calls, attempt, naps, admits, invoked>>
    /\ UNCHANGED <<searchVars, batchVars, matchVars, mainVars>>

\* wallet.py:29, 20: the back-off sleep ends; the for loop takes its next value,
\* or ends and the function returns None
BackoffWake ==
    /\ apc = "backoff"
    /\ clock' = clock + sleepFor
    /\ naps' = Append(naps, sleepFor)
    /\ sleepFor' = 0
    /\ attempt' = attempt + 1
    /\ IF attempt + 1 \in Attempts
       THEN apc' = "attempt" /\ UNCHANGED apiResult
       ELSE apc' = "returned" /\ apiResult' = [kind |-> "none", of |-> 0]
    /\ UNCHANGED <<last_reset, num_calls, outcomes, admits, invoked, printed, posted>>
    /\ UNCHANGED <<searchVars, batchVars, matchVars, mainVars>>

ApiInit ==
    /\ chain \in {[b \in 0..MaxBlock |-> 0]}
    /\ SearchIdle
    /\ BatchIdle
    /\ MatchIdle
    /\ ApiIdle
    /\ MainIdle

ApiNext ==
    \/ ApiCall
    \/ LimitAdmit
    \/ LimitReject
    \/ LimitWake
    \/ AttemptOk
    \/ AttemptFail
    \/ BackoffWake

ApiSpec == ApiInit /\ [][ApiNext]_vars

\* One flow runs the program and every sleep ends.
ApiFairSpec == ApiInit /\ [][ApiNext]_vars /\ WF_vars(ApiNext)

(***************************************************************************)
(* The __main__ block (wallet.py:146-160): get_latest_block_number, then   *)
(* binary_search_first_transaction over [0, latest_block], then, when it   *)
(* gives a block, the scan and the report.  The eth_blockNumber call goes  *)
(* through call_api as modelled above; the node answers it with a result  *)
(* or with an error object that has no `result` field.                     *)
(***************************************************************************)
\* what the node may answer to eth_blockNumber
LatestResponses ==
    {[has |-> TRUE, result |-> Hex(n)] : n \in 0..MaxBlock}
        \cup {[has |-> FALSE, result |-> NoAddr]}

\* the test of wallet.py:39 left out
HasResultUnchecked(r) == TRUE

\* wallet.py:39  'result' in response
HasResult(r) == r.has

\* wallet.py:41  int(response['result'], 16)
LatestBlockOf(r) == ParseHex(r.result)

\* wallet.py:153  if creation_block: (None and 0 are falsy)
TruthyBlock(b) == b # None /\ b # 0

\* wallet.py:159-160
Caught(cause) == [line |-> "An error occurred", cause |-> cause]

\* wallet.py:146-149, 32-37: the run starts; the eth_blockNumber payload is built
MainBegin ==
    /\ mainpc = "start"
    /\ mainpc' = "latest"
    /\ UNCHANGED <<latest_response, latest_block, creation_block, started, log>>
    /\ UNCHANGED <<searchVars, batchVars, matchVars, apiVars>>

\* wallet.py:38, 28, 159-160: call_api raised; the handler of __main__ logs it
MainLatestRaised ==
    /\ mainpc = "latest"
    /\ apc = "raised"
    /\ log' = Append(log, Caught("call_api"))
    /\ mainpc' = "ended"
    /\ UNCHANGED <<latest_response, latest_block, creation_block, started>>
    /\ UNCHANGED <<searchVars, batchVars, matchVars, apiVars>>

\* wallet.py:38-41, 149-152: call_api returned the node's answer; without a
\* result ValueError is raised and caught at wallet.py:159, with one the search
\* for the first transaction is called
MainLatestReturned ==
    /\ mainpc = "latest"
    /\ apc = "returned"
    /\ apiResult.kind = "response"
    /\ \E r \in LatestResponses :
         /\ latest_response' = r
         /\ IF HasResult(r)
            THEN /\ latest_block' = LatestBlockOf(r)
                 /\ log' = Append(log, [line |-> "Latest block", cause |-> "none"])
                 /\ started' = started \cup {"locator"}
                 /\ mainpc' = "locate"
                 /\ func' = "locate"
                 /\ lowBlock' = 0
                 /\ highBlock' = LatestBlockOf(r)
                 /\ start_block' = 0
                 /\ end_block' = LatestBlockOf(r)
                 /\ pc' = "coarse"
            ELSE /\ log' = Append(log, Caught("ValueError"))
                 /\ mainpc' = "ended"
                 /\ UNCHANGED <<latest_block, started, func, lowBlock, highBlock,
                                start_block, end_block, pc>>
    /\ UNCHANGED creation_block
    /\ UNCHANGED <<chain, maxTransactions, mid_block, batch_start, found_transaction,
                   block, result, transactions, pbar, lastFetch, meter,
                   scanLog>>
    /\ UNCHANGED <<batchVars, matchVars, apiVars>>

\* wallet.py:152-158: binary_search_first_transaction returned
MainAfterLocate ==
    /\ mainpc = "locate"
    /\ pc = "done"
    /\ creation_block' = result
    /\ IF TruthyBlock(result)
       THEN /\ log' = Append(log, [line |-> "First transaction found", cause |-> "none"])
            /\ started' = started \cup {"scanner"}
            /\ mainpc' = "scan"
            /\ func' = "scan"
            /\ lowBlock' = result
            /\ highBlock' = latest_block
            /\ maxTransactions' = MaxWanted
            /\ start_block' = result
            /\ end_block' = latest_block
            /\ pc' = "scan"
       ELSE /\ log' = Append(log, [line |-> "No transactions found for this address.",
                                   cause |-> "none"])
            /\ mainpc' = "ended"
            /\ UNCHANGED <<started, func, lowBlock, highBlock, maxTransactions,
                           start_block, end_block, pc>>
    /\ UNCHANGED <<latest_response, latest_block>>
    /\ UNCHANGED <<chain, mid_block, batch_start, found_transaction, block, result,
                   transactions, pbar, lastFetch, meter,
                   scanLog>>
    /\ UNCHANGED <<batchVars, matchVars, apiVars>>

\* the chains the run is put on: the address is in no block, or in one
MainChains == {c \in Chains : Cardinality({b \in 0..MaxBlock : c[b] > 0}) <= 1}

MainInit ==
    /\ chain \in MainChains
    /\ SearchIdle
    /\ BatchIdle
    /\ MatchIdle
    /\ ApiIdle
    /\ mainpc = "start"
    /\ latest_response = NoResponse
    /\ latest_block = None
    /\ creation_block = None
    /\ started = {}
    /\ log = <<>>

MainNext ==
    \/ MainBegin
    \/ (mainpc = "latest" /\ invoked = 0 /\ ApiCall)
    \/ (mainpc = "latest" /\ LimitAdmit)
    \/ (mainpc = "latest" /\ AttemptOk)
    \/ (mainpc = "latest" /\ AttemptFail)
    \/ (mainpc = "latest" /\ BackoffWake)
    \/ MainLatestRaised
    \/ MainLatestReturned
    \/ (mainpc = "locate" /\ CoarseEnter)
    \/ (mainpc = "locate" /\ CoarseBatchError)
    \/ (mainpc = "locate" /\ CoarseBatch)
    \/ (mainpc = "locate" /\ CoarseUpdate)
    \/ (mainpc = "locate" /\ CoarseExit)
    \/ (mainpc = "locate" /\ FineStep)
    \/ MainAfterLocate

MainSpec == MainInit /\ [][MainNext]_vars

\* One flow runs the program and every sleep ends.
MainFairSpec == MainInit /\ [][MainNext]_vars /\ WF_vars(MainNext)

(***************************************************************************)
(* Properties of call_api.                                                 *)
(***************************************************************************)
\* C4: one call_api invocation makes at most 3 POSTs; it returns the response
\* of the first POST that succeeds and makes none after it; when all 3 fail it
\* raises the error of the 3rd.
C4_ThreeAttempts ==
    /\ Len(outcomes) <= 3
    /\ \A i \in 1..(Len(outcomes) - 1) : outcomes[i] = "fail"
    /\ (Len(outcomes) > 0 /\ outcomes[Len(outcomes)] = "ok")
       => apc = "returned" /\ apiResult = [kind |-> "response", of |-> Len(outcomes)]
    /\ apc = "returned" => outcomes[Len(outcomes)] = "ok"
    /\ apc = "raised"
       => outcomes = <<"fail", "fail", "fail">> /\ apiResult = [kind |-> "error", of |-> 3]
    /\ outcomes = <<"fail", "fail", "fail">> => apc = "raised"

C4_Witness ==
    /\ apc = "returned" /\ outcomes = <<"fail", "fail", "ok">>
    /\ apiResult = [kind |-> "response", of |-> 3]

\* the invocations admitted in the limiter's window that starts at w
AdmittedIn(w) == {k \in 1..Len(admits) : admits[k].window = w}

\* C5 as stated: in any RATE_LIMIT seconds at most CALLS invocations are admitted.
C5_AnyWindow ==
    \A t \in 0..clock :
        Cardinality({k \in 1..Len(admits) : t <= admits[k].t /\ admits[k].t < t + RATE_LIMIT})
            <= CALLS

C5_Steps ==
    /\ ((apc = "limit" /\ clock < last_reset + RATE_LIMIT
            /\ Cardinality(AdmittedIn(last_reset)) = CALLS)
        => apc' = "sleeping")
    /\ ((apc = "limit" /\ apc' = "sleeping")
        => (/\ Cardinality(AdmittedIn(last_reset)) = CALLS
            /\ clock + sleepFor' = last_reset + RATE_LIMIT))
    /\ (apc = "sleeping"
        => (apc' = "limit" /\ clock' = last_reset + RATE_LIMIT))
    /\ ((apc = "limit" /\ sleepFor > 0) => apc' = "attempt")

\* C5 amended: in each window of the limiter (the RATE_LIMIT seconds from a
\* reset of its count) at most CALLS invocations are admitted; an invocation that
\* comes when CALLS are already admitted in the current window sleeps until that
\* window ends and is then let through; every invocation is let through, once.
C5_LimiterWindows ==
    /\ [](\A k \in 1..Len(admits) :
            /\ Cardinality(AdmittedIn(admits[k].window)) <= CALLS
            /\ admits[k].window <= admits[k].t
            /\ admits[k].t < admits[k].window + RATE_LIMIT)
    /\ [](apc \in {"attempt", "backoff", "returned", "raised"} => Len(admits) = invoked)
    /\ [](apc \in {"limit", "sleeping"} => Len(admits) = invoked - 1)
    /\ [][C5_Steps]_vars
    /\ (apc = "limit") ~> (apc = "attempt")

C5_Witness ==
    /\ apc = "attempt" /\ Len(admits) = CALLS + 1
    /\ \A k \in 1..CALLS : admits[k].window = admits[1].window /\ admits[k].waited = 0
    /\ admits[CALLS + 1].waited > 0
    /\ admits[CALLS + 1].t = admits[1].window + RATE_LIMIT

(***************************************************************************)
(* Properties of binary_search_first_transaction and                       *)
(* find_transactions_reverse_chronological.                                *)
(***************************************************************************)
\* the blocks of the requested range that hold a transaction of the address
MatchingBlocks == {b \in lowBlock..highBlock : chain[b] > 0}

\* the transactions of the requested range that involve the address
MatchingTxs ==
    {tx \in UNION {{BlockTxs(chain, b)[i] : i \in 1..Len(BlockTxs(chain, b))} :
                      b \in lowBlock..highBlock} :
        Lower(tx.from) = Lower(Tracked) \/ Lower(tx.to) = Lower(Tracked)}

NoScanFailure == \A i \in 1..Len(scanLog) : scanLog[i].ok

\* C1: with exactly one block B of [lowBlock, highBlock] holding a transaction
\* of the address, binary_search_first_transaction returns B unless a fetch
\* fails.
C1_LocateReturnsTheOnlyBlock ==
    <>(\/ ~(func = "locate" /\ Cardinality(MatchingBlocks) = 1)
       \/ ~lastFetch.ok
       \/ (pc = "done" /\ result \in MatchingBlocks))

\* C2: with no transaction of the address in [lowBlock, highBlock], both
\* functions return, binary_search_first_transaction None and
\* find_transactions_reverse_chronological the empty list.
C2_NoMatchNotFound ==
    /\ [](MatchingBlocks = {} /\ pc = "done" => result = None /\ transactions = <<>>)
    /\ <>(MatchingBlocks # {} \/ pc = "done")

C2_Witness ==
    /\ func = "locate" /\ MatchingBlocks = {} /\ lowBlock + BATCH_SIZE < highBlock
    /\ pc = "done" /\ result = None /\ lastFetch.phase = "coarse" /\ lastFetch.ok

\* C3: find_transactions_reverse_chronological returns, never holds more than
\* maxTransactions transactions, never fetches a block below lowBlock and, when
\* no fetch fails and the range holds fewer than maxTransactions transactions of
\* the address, returns exactly those.
C3_ScanBoundedAndComplete ==
    /\ [](func = "scan" => Len(transactions) <= maxTransactions)
    /\ [](func = "scan" => \A i \in 1..Len(lastFetch.blocks) : lastFetch.blocks[i] >= lowBlock)
    /\ [](func = "scan" /\ pc = "done" /\ NoScanFailure
            /\ Cardinality(MatchingTxs) < maxTransactions
          => SeqSet(transactions) = MatchingTxs
             /\ Len(transactions) = Cardinality(MatchingTxs))
    /\ <>(func # "scan" \/ pc = "done")

C3_Witness ==
    /\ func = "scan" /\ pc = "done" /\ NoScanFailure /\ Len(scanLog) >= 2
    /\ Cardinality(MatchingTxs) > 0 /\ Cardinality(MatchingTxs) < maxTransactions
    /\ Len(transactions) = Cardinality(MatchingTxs)

\* C7: when no fetch fails, no transaction of the address that
\* find_transactions_reverse_chronological leaves out lies in a higher block
\* than one it returns.
C7_ReturnsTheMostRecent ==
    func = "scan" /\ pc = "done" /\ NoScanFailure
    => \A t \in MatchingTxs \ SeqSet(transactions) :
         \A r \in SeqSet(transactions) : t.blockNumber <= r.blockNumber

\* C10: a fetch failure never leaves binary_search_first_transaction: after a
\* failed batch the coarse loop goes on with the next batch of [start, mid], the
\* batch counting as holding no match; after a failed block the fine-grained loop
\* goes on with the next block, and a block whose fetch failed is never returned.
C10_LocateSwallowsFetchErrors ==
    [][/\ (func = "locate" => pc' # "raised")
       /\ (pc = "batch" /\ ~lastFetch'.ok
            => /\ batch_start' = batch_start + BATCH_SIZE
               /\ pc' = IF batch_start' <= mid_block THEN "batch" ELSE "update"
               /\ ~found_transaction'
               /\ UNCHANGED <<start_block, end_block, mid_block, result>>)
       /\ (pc = "fine" /\ lastFetch' # lastFetch /\ ~lastFetch'.ok
            => block' = block + 1 /\ pc' = "fine" /\ UNCHANGED result)
       /\ (pc = "fine" /\ pc' = "done" /\ result' # None
            => lastFetch'.ok /\ lastFetch'.blocks = <<result'>>)]_vars

C10_Witness ==
    /\ func = "locate" /\ pc = "batch" /\ ~lastFetch.ok /\ lastFetch.phase = "coarse"
    /\ batch_start = lastFetch.blocks[1] + BATCH_SIZE /\ batch_start <= mid_block
    /\ chain[lastFetch.blocks[1]] > 0

\* the batch the scan asked for last
LastScanned == scanLog[Len(scanLog)]

C11_Steps ==
    (pc = "scan" /\ Len(scanLog') = Len(scanLog) + 1 /\ ~scanLog'[Len(scanLog')].ok)
    => (/\ transactions' = transactions
        /\ scanLog'[Len(scanLog')].last = end_block
        /\ scanLog'[Len(scanLog')].first = Max(end_block - BATCH_SIZE + 1, lowBlock)
        /\ end_block' = scanLog'[Len(scanLog')].first - 1
        /\ pbar' = pbar + (end_block - end_block')
        /\ pc' = "scan")

LatestFailed ==
    /\ mainpc \notin {"start", "latest"}
    /\ apc = "raised" \/ (latest_response \in LatestResponses /\ ~latest_response.has)

\* C12: when the eth_blockNumber step fails, by call_api raising after its 3
\* attempts or by a response without `result`, the run ends with the error
\* logged and without the search, the scan or the report being called; a
\* response without `result` is not asked for again: call_api is invoked once.
C12_LatestBlockFailureEndsTheRun ==
    /\ [](mainpc = "latest" /\ apc = "raised" => outcomes = <<"fail", "fail", "fail">>)
    /\ [][(mainpc = "latest" /\ apc = "raised") => (mainpc' = "ended" /\ LatestFailed')]_vars
    /\ [](LatestFailed
          => /\ mainpc = "ended"
             /\ started = {} /\ func = "none" /\ pc = "idle" /\ lastFetch = NoFetch
             /\ Len(log) = 1 /\ log[1].line = "An error occurred"
             /\ invoked = 1 /\ Len(admits) = 1
             /\ apc = "returned" => log[1].cause = "ValueError" /\ outcomes[Len(outcomes)] = "ok"
             /\ apc = "raised" => log[1].cause = "call_api")
    /\ (mainpc = "latest" /\ apc = "raised") ~> (mainpc = "ended")
    /\ [](mainpc = "ended" => [](mainpc = "ended"))

C12_Witness ==
    /\ mainpc = "ended" /\ log = <<Caught("ValueError")>>
    /\ invoked = 1 /\ outcomes = <<"fail", "ok">> /\ started = {}

\* the failed POSTs of the invocation under way
Failures == {i \in 1..Len(outcomes) : outcomes[i] = "fail"}

\* the waits of the invocation under way, the one in progress included
Waits == IF apc = "backoff" THEN Append(naps, sleepFor) ELSE naps

\* C13 as stated: each of the failed attempts 0, 1, 2 is followed by a wait of
\* 1 s, 2 s, 4 s.
C13_WaitAfterEveryFailure ==
    /\ Len(Waits) = Cardinality(Failures)
    /\ \A i \in 1..Len(Waits) : Waits[i] = <<1, 2, 4>>[i]

C13_Steps ==
    /\ ((apc = "attempt" /\ Len(outcomes') = Len(outcomes) + 1 /\ outcomes'[Len(outcomes')] = "fail")
        => (/\ printed' = Append(printed, Len(outcomes'))
            /\ Len(outcomes) < 2 => apc' = "backoff" /\ sleepFor' = <<1, 2>>[Len(outcomes')]
            /\ Len(outcomes) = 2 => apc' = "raised" /\ clock' - clock <= MaxDelay))
    /\ ((apc = "attempt" /\ Len(outcomes') = Len(outcomes) + 1 /\ outcomes'[Len(outcomes')] = "ok")
        => (apc' = "returned" /\ printed' = printed /\ naps' = naps
            /\ clock' - clock <= MaxDelay))
    /\ (apc = "backoff"
        => (apc' = "attempt" /\ clock' = clock + sleepFor /\ naps' = Append(naps, sleepFor)))

\* C13 amended: inside one call_api invocation the failed attempts 0 and 1 are
\* followed by a wait of 1 s and 2 s, then by the next attempt; the failed attempt
\* 2 is followed by no wait, the error is raised at once; every failed attempt
\* prints a line with its number counted from 1; a successful attempt is followed
\* by no wait and prints nothing.
C13_BackoffBetweenAttempts ==
    /\ [][C13_Steps]_vars
    /\ [](apc \in {"attempt", "backoff", "returned", "raised"}
          => /\ printed = [i \in 1..Cardinality(Failures) |-> i]
             /\ Len(Waits) = Cardinality(Failures \cap {1, 2})
             /\ \A i \in 1..Len(Waits) : Waits[i] = <<1, 2>>[i])

C13_Witness ==
    /\ apc = "raised" /\ naps = <<1, 2>> /\ printed = <<1, 2, 3>>
    /\ outcomes = <<"fail", "fail", "fail">>

\* the batch of the scan that block b was fetched in
BatchOf(b) == CHOOSE k \in 1..Len(scanLog) : scanLog[k].first <= b /\ b <= scanLog[k].last

\* s is the start of t
IsPrefix(s, t) == Len(s) <= Len(t) /\ s = SubSeq(t, 1, Len(s))

\* the transactions of the address in the blocks bs, block after block in the
\* order p
InvolvedIn(bs, p) ==
    SelectSeq(Flatten([i \in 1..Len(bs) |-> BlockTxs(chain, bs[p[i]])]),
              LAMBDA tx : Involves(tx, Tracked))

C14_Steps ==
    (pc = "scan" /\ Len(scanLog') = Len(scanLog) + 1)
    => (/\ IsPrefix(transactions, transactions')
        /\ \E p \in Perms(Len(lastFetch'.blocks)) :
             IsPrefix(SubSeq(transactions', Len(transactions) + 1, Len(transactions')),
                      InvolvedIn(lastFetch'.blocks, p)))

\* C14: the list find_transactions_reverse_chronological builds is ordered
\* newest batch first: of two of its transactions from different batches the
\* earlier one lies in the strictly higher block; the transactions of one batch
\* are added behind the others in the order get_block_transactions_batch gave
\* them.
C14_NewestBatchFirst ==
    /\ [](func = "scan"
          => \A i \in 1..Len(transactions) : \A j \in 1..Len(transactions) :
                (i < j /\ BatchOf(transactions[i].blockNumber) # BatchOf(transactions[j].blockNumber))
                => /\ transactions[i].blockNumber > transactions[j].blockNumber
                   /\ BatchOf(transactions[i].blockNumber) < BatchOf(transactions[j].blockNumber))
    /\ [][C14_Steps]_vars

C14_Witness ==
    /\ func = "scan" /\ pc = "done" /\ Len(transactions) = 2
    /\ BatchOf(transactions[1].blockNumber) # BatchOf(transactions[2].blockNumber)
    /\ transactions[1].blockNumber > transactions[2].blockNumber + BATCH_SIZE

\* the least k with 2^k >= n
RECURSIVE Log2Ceil(_)
Log2Ceil(n) == IF n <= 1 THEN 0 ELSE 1 + Log2Ceil((n + 1) \div 2)

\* C15: on a range without a transaction of the address,
\* binary_search_first_transaction fetches a number of coarse batches that is
\* logarithmic in the length of the range, at most two per halving and two
\* more, and at most BATCH_SIZE single blocks in its fine-grained phase.
C15_LogarithmicCost ==
    (meter.on /\ MatchingBlocks = {})
    => /\ meter.coarse <= 2 * Log2Ceil(highBlock - lowBlock + 1) + 2
       /\ meter.fine <= BATCH_SIZE

\* C16: on every chain and range, unless a fetch fails, the coarse loop of
\* binary_search_first_transaction comes to start_block > end_block and the
\* function returns.
C16_LocateReturns ==
    <>(\/ func # "locate"
       \/ ~lastFetch.ok
       \/ (pc \in {"fine", "done"} /\ start_block > end_block))
    /\ <>(func # "locate" \/ ~lastFetch.ok \/ pc = "done")

C17_Steps ==
    func = "locate"
    => /\ start_block' >= start_block
       /\ end_block' <= end_block
       /\ (pc = "batch" /\ found_transaction') => end_block' <= end_block
       /\ (pc = "update" /\ ~found_transaction) => start_block' = mid_block + 1
       /\ (pc = "update" /\ found_transaction) => start_block' = start_block

\* C17: every pass of the coarse loop of binary_search_first_transaction
\* narrows the window inside the requested range: a pass starts with
\* lowBlock <= start_block <= end_block <= highBlock, a match puts end_block no
\* higher than it was, a miss puts start_block at mid_block + 1, start_block
\* never goes down and end_block never goes up.
C17_WindowNarrows ==
    /\ [](func = "locate" /\ pc \in {"batch", "update"}
          => lowBlock <= start_block /\ start_block <= mid_block /\ mid_block <= highBlock)
    /\ [](func = "locate" /\ pc = "batch"
          => start_block <= end_block /\ end_block <= highBlock)
    /\ [][C17_Steps]_vars

\* the blocks of the batches the scan has asked for
ScannedBlocks == UNION {scanLog[k].first..scanLog[k].last : k \in 1..Len(scanLog)}

C18_Steps ==
    (func = "scan" /\ pc = "scan" /\ Len(scanLog') = Len(scanLog) + 1)
    => /\ end_block' < end_block
       /\ scanLog'[Len(scanLog')].last = end_block
       /\ lastFetch'.blocks = [i \in 1..(end_block - end_block') |-> end_block' + i]

\* C18: the batches of one find_transactions_reverse_chronological run are the
\* descending intervals [batch_start, cursor] with
\* batch_start = max(cursor - BATCH_SIZE + 1, lowBlock): each holds 1 to
\* BATCH_SIZE blocks, the first ends at highBlock, each next one ends one block
\* below the start of the one before, no block is fetched twice or lies outside
\* [lowBlock, highBlock], and the cursor goes down at every pass.
C18_ScanBatches ==
    /\ [](func = "scan"
          => \A k \in 1..Len(scanLog) :
               /\ scanLog[k].first = Max(scanLog[k].last - BATCH_SIZE + 1, lowBlock)
               /\ scanLog[k].last - scanLog[k].first + 1 \in 1..BATCH_SIZE
               /\ lowBlock <= scanLog[k].first /\ scanLog[k].last <= highBlock
               /\ k = 1 => scanLog[k].last = highBlock
               /\ k > 1 => scanLog[k].last = scanLog[k - 1].first - 1
               /\ \A j \in 1..Len(scanLog) :
                    j # k => (scanLog[j].first..scanLog[j].last)
                                \cap (scanLog[k].first..scanLog[k].last) = {})
    /\ [](func = "scan" => ScannedBlocks = (end_block + 1)..highBlock)
    /\ [][C18_Steps]_vars

C18_Witness ==
    /\ func = "scan" /\ pc = "done" /\ Len(scanLog) = 3
    /\ scanLog[1].last - scanLog[1].first + 1 = BATCH_SIZE
    /\ scanLog[3].first = lowBlock /\ scanLog[3].last = lowBlock
    /\ lowBlock > 0 /\ end_block = lowBlock - 1

\* C19: the limit covers every POST, the retries of call_api included: no more
\* than CALLS POSTs leave within one window of RATE_LIMIT seconds.
C19_EveryPostWithinTheLimit ==
    posted <= CALLS

\* C20: when the coarse loop of binary_search_first_transaction is left,
\* start_block = end_block + 1: the fine-grained loop runs over the empty range,
\* no single block is fetched and the function returns None.
C20_FinePhaseIsEmpty ==
    /\ lastFetch.phase # "fine"
    /\ (func = "locate" /\ pc \in {"fine", "done"})
       => /\ start_block = end_block + 1
          /\ block = start_block
          /\ Range(start_block, end_block + 1) = <<>>
    /\ (func = "locate" /\ pc = "done") => result = None

C20_Witness ==
    /\ func = "locate" /\ pc = "done" /\ result = None
    /\ MatchingBlocks # {} /\ start_block = end_block + 1 /\ lowBlock < highBlock
    /\ lastFetch.phase = "coarse"

====
